---- MODULE Spec2Model ----
(***************************************************************************)
(* Model of src/main.py: the daily research paper fetcher.                 *)
(*                                                                         *)
(*   fetch_arxiv_papers()  one HTTP GET, feedparser, one dict per entry    *)
(*   filter_papers(papers) recency cutoff, keyword score, sort by score    *)
(*   __main__              fetch, then filter when the fetch is truthy     *)
(*                                                                         *)
(* Strings that the code inspects character by character (titles,          *)
(* summaries, KEYWORDS) are sequences of one-character strings.  A date    *)
(* string is a record [form, t]: form "utc" is a timestamp that carries a  *)
(* zone designator ('2025-01-01T12:00:00Z'), form "naive" one that carries *)
(* none, form "bad" text dateutil cannot parse; t counts microseconds.     *)
(***************************************************************************)
EXTENDS Integers, Sequences, FiniteSets

VARIABLES pc, response, requests, raw_papers, cfg, relevant_papers, shown

vars == <<pc, response, requests, raw_papers, cfg, relevant_papers, shown>>

(***************************************************************************)
(* Bounds of the model.                                                    *)
(***************************************************************************)
MaxEntries == 3
MaxKwLen == 3

(***************************************************************************)
(* Program constant: main displays relevant_papers[:3].                    *)
(***************************************************************************)
TopN == 3

Range(s) == {s[i] : i \in DOMAIN s}

SeqsUpTo(S, n) == UNION {[1..k -> S] : k \in 0..n}

Min(a, b) == IF a < b THEN a ELSE b

(***************************************************************************)
(* str methods used by the code.                                           *)
(***************************************************************************)
LowerChar(c) == CASE c = "A" -> "a" [] c = "B" -> "b" [] OTHER -> c

Lower(s) == [i \in 1..Len(s) |-> LowerChar(s[i])]

IsSpace(c) == c \in {" ", "\n"}

RECURSIVE LStrip(_)
LStrip(s) == IF s # <<>> /\ IsSpace(s[1]) THEN LStrip(Tail(s)) ELSE s

RECURSIVE RStrip(_)
RStrip(s) ==
    IF s # <<>> /\ IsSpace(s[Len(s)]) THEN RStrip(SubSeq(s, 1, Len(s) - 1)) ELSE s

Strip(s) == RStrip(LStrip(s))

RECURSIVE Split(_, _)
Split(s, sep) ==
    IF \E i \in 1..Len(s) : s[i] = sep
    THEN LET i == CHOOSE j \in 1..Len(s) :
                      s[j] = sep /\ \A h \in 1..(j - 1) : s[h] # sep
         IN <<SubSeq(s, 1, i - 1)>> \o Split(SubSeq(s, i + 1, Len(s)), sep)
    ELSE <<s>>

ReplaceNewlines(s) == [i \in 1..Len(s) |-> IF s[i] = "\n" THEN " " ELSE s[i]]

Contains(text, k) ==
    \E i \in 0..(Len(text) - Len(k)) : SubSeq(text, i + 1, i + Len(k)) = k

(***************************************************************************)
(* Inputs: what the network can answer and what the feed can hold.         *)
(***************************************************************************)
Utc(t) == [form |-> "utc", t |-> t]

Naive(t) == [form |-> "naive", t |-> t]

Bad == [form |-> "bad", t |-> 0]

Entry(title, summary, published, link) ==
    [title |-> title, authors |-> <<[name |-> "n"]>>, published |-> published,
     summary |-> summary, link |-> link]

WellFormedEntries ==
    { Entry(<<"A">>, <<"b">>, Utc(8), "u1"),
      Entry(<<"a">>, <<>>, Utc(8), "u2"),
      Entry(<<"b", "\n", "A">>, <<>>, Utc(9), "u3"),
      Entry(<<"A">>, <<"b">>, Utc(7), "u4"),
      Entry(<<"a">>, <<"b">>, Naive(9), "u5"),
      Entry(<<"a">>, <<"b">>, Bad, "u6") }

Without(e, f) == [g \in (DOMAIN e) \ {f} |-> e[g]]

BaseEntry == Entry(<<"A">>, <<"b">>, Utc(8), "u1")

IllFormedEntries ==
    {Without(BaseEntry, f) : f \in DOMAIN BaseEntry}
        \cup {[BaseEntry EXCEPT !.authors = <<[email |-> "m"]>>]}

Entries == WellFormedEntries \cup IllFormedEntries

Statuses == {200, 304, 404, 503}

\* What feedparser recovers from a body that is not well-formed: nothing, or
\* the entry that precedes the defect.
RecoveredEntries == {<<>>} \cup {<<e>> : e \in Entries}

NoResponse == [kind |-> "none", status |-> 0, wellformed |-> FALSE, entries |-> <<>>]

Responses ==
    {[kind |-> "error", status |-> 0, wellformed |-> FALSE, entries |-> <<>>]}
        \cup {[kind |-> "http", status |-> s, wellformed |-> FALSE, entries |-> <<>>] :
                 s \in Statuses \ {200}}
        \cup [kind : {"http"}, status : {200}, wellformed : {TRUE},
              entries : SeqsUpTo(Entries, MaxEntries)]
        \cup [kind : {"http"}, status : {200}, wellformed : {FALSE},
              entries : RecoveredEntries]

KwAlphabet == {"a", "B", ",", " "}

KeywordStrings == SeqsUpTo(KwAlphabet, MaxKwLen)

WindowValues == {2}

NowValues == {10}

(***************************************************************************)
(* Values a call hands back: a list, None, or an exception that leaves it. *)
(***************************************************************************)
Returned(v) == [tag |-> "ok", exc |-> "none", value |-> v]

None == [tag |-> "None", exc |-> "none", value |-> <<>>]

Raised(e) == [tag |-> "raise", exc |-> e, value |-> <<>>]

Unset == [tag |-> "unset", exc |-> "none", value |-> <<>>]

Truthy(r) == r.tag = "ok" /\ r.value # <<>>

(***************************************************************************)
(* fetch_arxiv_papers                                                      *)
(***************************************************************************)
\* response.raise_for_status(): HTTPError for 4xx and 5xx, nothing otherwise.
RaisesForStatus(resp) == resp.status >= 400 /\ resp.status < 600

\* feedparser.parse never raises on a malformed body: it sets bozo and hands
\* back the entries it could recover.
FeedParse(resp) == [bozo |-> ~resp.wellformed, entries |-> resp.entries]

\* Attribute access on a feedparser entry raises AttributeError when the
\* field is absent.
EntryComplete(entry) ==
    /\ {"title", "authors", "published", "summary", "link"} \subseteq DOMAIN entry
    /\ \A i \in DOMAIN entry.authors : "name" \in DOMAIN entry.authors[i]

PaperOf(entry) ==
    [title |-> ReplaceNewlines(entry.title),
     authors |-> [i \in DOMAIN entry.authors |-> entry.authors[i].name],
     published_date |-> entry.published,
     summary |-> ReplaceNewlines(entry.summary),
     paper_url |-> entry.link]

BuildPapers(entries) ==
    IF \A i \in DOMAIN entries : EntryComplete(entries[i])
    THEN Returned([i \in DOMAIN entries |-> PaperOf(entries[i])])
    ELSE Raised("AttributeError")

\* Variant: the except branch returns an empty list.
OnRequestExceptionEmptyList == Returned(<<>>)

\* except requests.exceptions.RequestException: print(...); return None
OnRequestException == None

FetchOutcome(resp) ==
    IF resp.kind = "error" \/ RaisesForStatus(resp)
    THEN OnRequestException
    ELSE BuildPapers(FeedParse(resp).entries)

(***************************************************************************)
(* filter_papers                                                           *)
(***************************************************************************)
\* Variant: the list comprehension without its "if k.strip()" test.
ParseKeywordsKeepEmpty(KEYWORDS) ==
    LET parts == Split(Lower(KEYWORDS), ",")
    IN [i \in DOMAIN parts |-> Strip(parts[i])]

\* keywords = os.getenv('KEYWORDS', '').lower().split(',')
\* keywords = [k.strip() for k in keywords if k.strip()]
ParseKeywords(KEYWORDS) ==
    LET parts == Split(Lower(KEYWORDS), ",")
        kept == SelectSeq(parts, LAMBDA k : Strip(k) # <<>>)
    IN [i \in DOMAIN kept |-> Strip(kept[i])]

\* Variant: unreadable text falls back to a default date instead of raising.
DateParseDefault(s) ==
    [exc |-> "none", tzinfo |-> IF s.form = "naive" THEN "None" ELSE "UTC",
     t |-> IF s.form = "bad" THEN 0 ELSE s.t]

\* date_parser.parse: ParserError (a ValueError) on text it cannot read, a
\* datetime without tzinfo when the text names no zone.
DateParse(s) ==
    IF s.form = "bad"
    THEN [exc |-> "ValueError", tzinfo |-> "None", t |-> 0]
    ELSE [exc |-> "none", tzinfo |-> IF s.form = "utc" THEN "UTC" ELSE "None",
          t |-> s.t]

\* pub_date < cutoff_date raises TypeError when pub_date has no tzinfo
\* (cutoff_date is aware).
CompareRaises(pub) == pub.tzinfo = "None"

\* Variant: pub_date <= cutoff_date.
IsStaleInclusive(pub, cutoff_date) == pub.t <= cutoff_date

IsStale(pub, cutoff_date) == pub.t < cutoff_date

TextToCheck(paper) == Lower(paper.title \o <<" ">> \o paper.summary)

RECURSIVE Score(_, _)
Score(keywords, text) ==
    IF keywords = <<>> THEN 0
    ELSE (IF Contains(text, Head(keywords)) THEN 1 ELSE 0) + Score(Tail(keywords), text)

\* Variant: score >= 0.
KeepsAny(score) == score >= 0

Keeps(score) == score > 0

WithScore(paper, score) ==
    [f \in (DOMAIN paper) \cup {"score"} |-> IF f = "score" THEN score ELSE paper[f]]

RECURSIVE FilterLoop(_, _, _, _, _)
FilterLoop(i, papers, filtered_papers, keywords, cutoff_date) ==
    IF i > Len(papers)
    THEN [exc |-> "none", filtered_papers |-> filtered_papers, papers |-> papers]
    ELSE LET paper == papers[i]
             pub_date == DateParse(paper.published_date)
             score == Score(keywords, TextToCheck(paper))
         IN IF pub_date.exc # "none"
            THEN [exc |-> pub_date.exc, filtered_papers |-> filtered_papers,
                  papers |-> papers]
            ELSE IF CompareRaises(pub_date)
            THEN [exc |-> "TypeError", filtered_papers |-> filtered_papers,
                  papers |-> papers]
            ELSE IF IsStale(pub_date, cutoff_date)
            THEN FilterLoop(i + 1, papers, filtered_papers, keywords, cutoff_date)
            ELSE IF Keeps(score)
            THEN FilterLoop(i + 1, [papers EXCEPT ![i] = WithScore(paper, score)],
                            Append(filtered_papers, WithScore(paper, score)),
                            keywords, cutoff_date)
            ELSE FilterLoop(i + 1, papers, filtered_papers, keywords, cutoff_date)

\* Variant: a sort that moves an element in front of earlier equal scores.
StaysBehindStrict(earlier, later) == earlier.score > later.score

\* list.sort(key=score, reverse=True) is stable: an element stays behind every
\* earlier element whose score is not smaller.
StaysBehind(earlier, later) == earlier.score >= later.score

RECURSIVE InsertByScore(_, _)
InsertByScore(sorted, x) ==
    IF sorted = <<>> THEN <<x>>
    ELSE IF StaysBehind(Head(sorted), x)
    THEN <<Head(sorted)>> \o InsertByScore(Tail(sorted), x)
    ELSE <<x>> \o sorted

RECURSIVE SortInto(_, _)
SortInto(sorted, rest) ==
    IF rest = <<>> THEN sorted
    ELSE SortInto(InsertByScore(sorted, Head(rest)), Tail(rest))

SortByScore(papers) == SortInto(<<>>, papers)

filter_papers(papers, KEYWORDS, window, now) ==
    LET keywords == ParseKeywords(KEYWORDS)
        cutoff_date == now - window
        loop == FilterLoop(1, papers, <<>>, keywords, cutoff_date)
    IN [result |-> IF loop.exc = "none"
                   THEN Returned(SortByScore(loop.filtered_papers))
                   ELSE Raised(loop.exc),
        papers |-> loop.papers]

(***************************************************************************)
(* The program: __main__ calls fetch_arxiv_papers, then filter_papers.     *)
(***************************************************************************)
NoConfig ==
    [KEYWORDS |-> <<>>, keywords |-> <<>>, window |-> 0, now |-> 0, cutoff_date |-> 0,
     papers |-> <<>>]

Init ==
    /\ pc = "start"
    /\ response = NoResponse
    /\ requests = 0
    /\ raw_papers = Unset
    /\ cfg = NoConfig
    /\ relevant_papers = Unset
    /\ shown = <<>>

\* requests.get(base_url, params=params): one GET, answered or failed.
Request ==
    /\ pc = "start"
    /\ \E resp \in Responses : response' = resp
    /\ requests' = requests + 1
    /\ pc' = "requested"
    /\ UNCHANGED <<raw_papers, cfg, relevant_papers, shown>>

\* The rest of fetch_arxiv_papers, up to its return or its uncaught exception.
FetchReturn ==
    /\ pc = "requested"
    /\ raw_papers' = FetchOutcome(response)
    /\ pc' = IF FetchOutcome(response).tag = "raise" THEN "crashed" ELSE "fetched"
    /\ UNCHANGED <<response, requests, cfg, relevant_papers, shown>>

\* if raw_papers: the call of filter_papers(raw_papers), which reads KEYWORDS,
\* SEARCH_WINDOW_DAYS and the clock, and adds 'score' to the dicts it keeps.
FilterCall ==
    /\ pc = "fetched"
    /\ Truthy(raw_papers)
    /\ \E KEYWORDS \in KeywordStrings, window \in WindowValues, now \in NowValues :
          LET out == filter_papers(raw_papers.value, KEYWORDS, window, now)
          IN /\ cfg' = [KEYWORDS |-> KEYWORDS, keywords |-> ParseKeywords(KEYWORDS),
                        window |-> window, now |-> now, cutoff_date |-> now - window,
                        papers |-> raw_papers.value]
             /\ relevant_papers' = out.result
             /\ raw_papers' = [raw_papers EXCEPT !.value = out.papers]
             /\ pc' = IF out.result.tag = "raise" THEN "crashed" ELSE "filtered"
    /\ response' = NoResponse
    /\ UNCHANGED <<requests, shown>>

\* else: print("No papers fetched.")
NoPapers ==
    /\ pc = "fetched"
    /\ ~Truthy(raw_papers)
    /\ pc' = "done"
    /\ response' = NoResponse
    /\ UNCHANGED <<requests, raw_papers, cfg, relevant_papers, shown>>

\* for i, paper in enumerate(relevant_papers[:3], 1): print(...)
Display ==
    /\ pc = "filtered"
    /\ shown' = SubSeq(relevant_papers.value, 1, Min(TopN, Len(relevant_papers.value)))
    /\ pc' = "done"
    /\ UNCHANGED <<response, requests, raw_papers, cfg, relevant_papers>>

Next == Request \/ FetchReturn \/ FilterCall \/ NoPapers \/ Display

Spec == Init /\ [][Next]_vars

(***************************************************************************)
(* Vocabulary of the properties.                                           *)
(***************************************************************************)
Unscored(p) == [f \in (DOMAIN p) \ {"score"} |-> p[f]]

UnscoredSeq(s) == [i \in DOMAIN s |-> Unscored(s[i])]

Count(s, x) == Cardinality({i \in DOMAIN s : s[i] = x})

RECURSIVE IsSubseq(_, _)
IsSubseq(a, b) ==
    \/ a = <<>>
    \/ /\ b # <<>>
       /\ IF Head(a) = Head(b) THEN IsSubseq(Tail(a), Tail(b)) ELSE IsSubseq(a, Tail(b))

FilterCalled == relevant_papers.tag # "unset"

FilterReturned == relevant_papers.tag = "ok"

FilterInput == cfg.papers

FilterOutput == relevant_papers.value

InOutput(p) == \E i \in DOMAIN FilterOutput : Unscored(FilterOutput[i]) = p

MatchesSomeKeyword(p) ==
    \E i \in DOMAIN cfg.keywords : Contains(TextToCheck(p), cfg.keywords[i])

ScoreClass(s) ==
    UnscoredSeq(SelectSeq(FilterOutput, LAMBDA p : p.score = s))

FetchEnded == pc \in {"fetched", "crashed"} /\ response.kind # "none"

(***************************************************************************)
(* C1: the sequence filter_papers returns is sorted non-increasing by      *)
(* score, and output records of equal score keep the relative order they   *)
(* had in the input.                                                       *)
(***************************************************************************)
C1_SortedStable ==
    FilterReturned =>
        /\ \A i \in 1..(Len(FilterOutput) - 1) :
               FilterOutput[i].score >= FilterOutput[i + 1].score
        /\ \A i \in DOMAIN FilterOutput :
               IsSubseq(ScoreClass(FilterOutput[i].score), FilterInput)

\* Three records kept: the first input record has the lowest score and ends
\* last, behind two different records of equal score.
C1_Witness ==
    /\ FilterReturned
    /\ Len(FilterOutput) = 3
    /\ FilterOutput[1].score = FilterOutput[2].score
    /\ FilterOutput[2].score > FilterOutput[3].score
    /\ FilterOutput[1].paper_url # FilterOutput[2].paper_url
    /\ Unscored(FilterOutput[3]) = FilterInput[1]

(***************************************************************************)
(* C2: a record published exactly at cutoff = now - window that matches a  *)
(* keyword is in the output; a record published any amount before cutoff   *)
(* is not, whatever it matches.                                            *)
(***************************************************************************)
C2_DateBoundary ==
    FilterReturned =>
        \A i \in DOMAIN FilterInput :
            LET p == FilterInput[i]
            IN p.published_date.form = "utc" =>
                   /\ (p.published_date.t = cfg.cutoff_date /\ MatchesSomeKeyword(p))
                          => InOutput(p)
                   /\ p.published_date.t < cfg.cutoff_date => ~InOutput(p)

\* One call that keeps a record dated at the cutoff and drops a matching
\* record dated one microsecond earlier.
C2_Witness ==
    /\ FilterReturned
    /\ \E i, j \in DOMAIN FilterInput :
          /\ FilterInput[i].published_date.t = cfg.cutoff_date
          /\ InOutput(FilterInput[i])
          /\ FilterInput[j].published_date.t = cfg.cutoff_date - 1
          /\ MatchesSomeKeyword(FilterInput[j])
          /\ ~InOutput(FilterInput[j])

(***************************************************************************)
(* C3: when KEYWORDS is empty or holds only commas and whitespace, the     *)
(* keyword list is empty and filter_papers hands back no record.           *)
(***************************************************************************)
C3_EmptyKeywords ==
    (FilterCalled /\ \A i \in DOMAIN cfg.KEYWORDS : cfg.KEYWORDS[i] \in {",", " "})
        => cfg.keywords = <<>> /\ FilterOutput = <<>>

\* KEYWORDS of commas and blanks, a record inside the window, a normal return.
C3_Witness ==
    /\ FilterReturned
    /\ Len(cfg.KEYWORDS) >= 2
    /\ \A i \in DOMAIN cfg.KEYWORDS : cfg.KEYWORDS[i] \in {",", " "}
    /\ \E i \in DOMAIN FilterInput : FilterInput[i].published_date.t >= cfg.cutoff_date
    /\ FilterOutput = <<>>

(***************************************************************************)
(* C4: every output record is an input record, no more often than the      *)
(* input holds it, and carries a score of at least 1.                      *)
(***************************************************************************)
C4_SubsetScored ==
    FilterReturned =>
        \A i \in DOMAIN FilterOutput :
            /\ FilterOutput[i].score >= 1
            /\ Count(UnscoredSeq(FilterOutput), Unscored(FilterOutput[i]))
                   <= Count(FilterInput, Unscored(FilterOutput[i]))

\* Some records kept, some dropped, one record twice in input and output.
C4_Witness ==
    /\ FilterReturned
    /\ Len(FilterOutput) = 2
    /\ Len(FilterInput) = 3
    /\ Unscored(FilterOutput[1]) = Unscored(FilterOutput[2])

(***************************************************************************)
(* C5: the score of an output record is the number of distinct configured  *)
(* keywords that occur in lowercase(title + " " + summary).                *)
(***************************************************************************)
C5_DistinctKeywordScore ==
    FilterReturned =>
        \A i \in DOMAIN FilterOutput :
            FilterOutput[i].score =
                Cardinality({k \in Range(cfg.keywords) :
                                Contains(TextToCheck(FilterOutput[i]), k)})

C7_MalformedBodyFails ==
    (FetchEnded /\ response.kind = "http" /\ response.status \in 200..299
        /\ ~response.wellformed)
        => raw_papers.tag # "ok" /\ raw_papers # None

(***************************************************************************)
(* C8: entries that lack a field never abort the fetch: the call returns a *)
(* list that holds the records of all complete entries in feed order.      *)
(***************************************************************************)
C8_IncompleteEntriesSkipped ==
    (FetchEnded /\ response.kind = "http" /\ response.status = 200
        /\ response.wellformed)
        => /\ raw_papers.tag = "ok"
           /\ LET complete == SelectSeq(response.entries, EntryComplete)
              IN IsSubseq([i \in DOMAIN complete |-> PaperOf(complete[i])],
                          raw_papers.value)

(***************************************************************************)
(* C9: an input record whose published_date cannot be parsed makes the     *)
(* whole filter_papers call fail: an exception leaves it, no sequence.     *)
(***************************************************************************)
C9_BadDateFails ==
    (FilterCalled /\ \E i \in DOMAIN FilterInput : FilterInput[i].published_date.form = "bad")
        => /\ relevant_papers.tag = "raise"
           /\ FilterOutput = <<>>
           /\ pc = "crashed"

\* The bad record comes second, after a record that was kept and scored.
C9_Witness ==
    /\ FilterCalled
    /\ Len(FilterInput) >= 2
    /\ FilterInput[2].published_date.form = "bad"
    /\ "score" \in DOMAIN raw_papers.value[1]
    /\ relevant_papers = Raised("ValueError")

(***************************************************************************)
(* C10: a published_date without timezone information is read as UTC and  *)
(* the call does not fail because of it.                                   *)
(***************************************************************************)
C10_NaiveDateIsUtc ==
    (/\ FilterCalled
     /\ \E i \in DOMAIN FilterInput : FilterInput[i].published_date.form = "naive"
     /\ \A i \in DOMAIN FilterInput : FilterInput[i].published_date.form # "bad")
        => /\ FilterReturned
           /\ \A i \in DOMAIN FilterInput :
                  LET p == FilterInput[i]
                  IN (p.published_date.t >= cfg.cutoff_date /\ MatchesSomeKeyword(p))
                         => InOutput(p)

====
